---- MODULE Spec2Model ----
(***************************************************************************)
(* A model of the tinywgpu frame orchestrator: CanvasContext (surface      *)
(* size bookkeeping), PipelineManager (pipeline cache) and Engine (the     *)
(* per-frame command recording: beginFrame, buildRenderStack,              *)
(* renderCamera for each camera, endFrame).                                *)
(*                                                                         *)
(* Numbers.  Times are integer milliseconds, as performance.now() would    *)
(* return them; a delta-time is kept as the number of milliseconds it      *)
(* stands for (the code's value is that number / 1000).  The device pixel  *)
(* ratio is kept as a numerator over RatioDen, 0 standing for a missing    *)
(* or zero window.devicePixelRatio.  An aspect ratio is kept as the pair   *)
(* <<width, height>> it is the quotient of.                                *)
(***************************************************************************)
EXTENDS Integers, Sequences, FiniteSets, TLC

VARIABLES
    \* ---- the page: canvas elements and the window
    canvasEl,          \* id -> [width, height, clientWidth, clientHeight]
    devicePixelRatio,  \* window.devicePixelRatio, numerator over RatioDen
    \* ---- CanvasManager / CanvasContext
    registered,        \* ids that have a CanvasContext
    size,              \* id -> CanvasContext.size
    configureCalls,    \* id -> number of GPUCanvasContext.configure calls
    changed,           \* id -> displayed size or density changed since
                       \*       registration / the last updateSize (history)
    \* ---- PipelineManager
    pipelines,         \* PipelineManager.pipelines: key -> pipeline object
    nextPipeline,      \* number of device.createRenderPipeline calls so far
    builds,            \* key -> builder invocations since the key was last
                       \*        evicted (history)
    returned,          \* key -> pipelines getOrCreate returned since the key
                       \*        was last evicted (history)
    calls,             \* key -> getOrCreate calls since the key was last
                       \*        evicted, counted up to MaxCalls (history)
    \* ---- Engine
    preferredFormat,   \* navigator.gpu.getPreferredCanvasFormat()
    clock,             \* the last value performance.now() returned
    lastFrameTime,     \* Engine._lastFrameTime
    uniformBuffer,     \* Engine._uniformBuffer: 0 is null, else the buffer
    cameras,           \* SceneManager's cameras, in its iteration order
    scenes,            \* scene id -> the scene's renderables (their meshes)
    frame,             \* what the last RenderLoop call did (history)
    passPipelines,     \* key -> pipelines set on render passes since the key
                       \*        was last evicted (history)
    \* ---- the last operation on the page or on a CanvasContext, and what
    \*      it did (history)
    canvasOp

vars == <<canvasEl, devicePixelRatio, registered, size, configureCalls,
          changed, pipelines, nextPipeline, builds, returned, calls,
          preferredFormat, clock, lastFrameTime, uniformBuffer, cameras,
          scenes, frame, passPipelines, canvasOp>>

canvasVars == <<canvasEl, devicePixelRatio, registered, size,
                configureCalls, changed, canvasOp>>
cacheVars == <<pipelines, nextPipeline, builds, returned, calls,
               passPipelines>>
engineVars == <<preferredFormat, clock, lastFrameTime, uniformBuffer,
                cameras, scenes, frame>>

(***************************************************************************)
(* Bounds                                                                  *)
(***************************************************************************)
MaxDisplay == 2      \* displayed (CSS) widths and heights are 0..MaxDisplay
RatioDen == 2        \* pixel ratios are multiples of 1/RatioDen
MaxRatio == 4        \* pixel-ratio numerators are 0..MaxRatio
MaxPipelines == 3    \* at most this many pipelines are ever compiled
MaxCameras == 2      \* at most this many cameras
MaxRenderables == 2  \* at most this many renderables in a scene
MaxTime == 4         \* performance.now() stays within 0..MaxTime
MaxStep == 2         \* the clock advances by at most this between reads
MaxCalls == 3        \* getOrCreate calls per key are counted up to this
MaxOrder == 1        \* camera order values are 0..MaxOrder

CanvasIds == {"c1", "c2"}
DisplayRange == 0..MaxDisplay
PixelRatios == 0..MaxRatio
Formats == {"bgra8unorm", "rgba8unorm"}

Min(a, b) == IF a <= b THEN a ELSE b

(***************************************************************************)
(* CanvasContext                                                           *)
(***************************************************************************)

PixelRatioUnchecked(dpr) == dpr

\* window.devicePixelRatio || 1, as a numerator over RatioDen
PixelRatioOrOne(dpr) == IF dpr = 0 THEN RatioDen ELSE dpr

\* Math.floor(display * pixelRatio)
FloorScaled(display, ratio) == (display * ratio) \div RatioDen

\* the width and height updateSize computes for the canvas element el
ComputedSize(el, dpr) ==
    [width  |-> FloorScaled(el.clientWidth, PixelRatioOrOne(dpr)),
     height |-> FloorScaled(el.clientHeight, PixelRatioOrOne(dpr))]

\* CanvasContext.resize: the context's record and the canvas element after
\* resize(width, height); writes counts the assignments to canvas.width and
\* canvas.height, configures the calls to configure()
ResizeResult(el, width, height) ==
    [size |-> [width |-> width, height |-> height],
     el |-> [el EXCEPT !.width = width, !.height = height],
     resizes |-> 1, writes |-> 2, configures |-> 0]

UpdateSizeNoGuard(sz, el, dpr) ==
    LET c == ComputedSize(el, dpr) IN ResizeResult(el, c.width, c.height)

\* CanvasContext.updateSize on a context whose stored size is sz
UpdateSizeResult(sz, el, dpr) ==
    LET c == ComputedSize(el, dpr) IN
    IF sz.width = c.width /\ sz.height = c.height
    THEN [size |-> sz, el |-> el, resizes |-> 0, writes |-> 0,
          configures |-> 0]
    ELSE ResizeResult(el, c.width, c.height)

\* new CanvasContext(canvas, device): size is read from the canvas element's
\* backing width and height, then configure() is called once
ConstructResult(el) ==
    [size |-> [width |-> el.width, height |-> el.height],
     el |-> el, resizes |-> 0, writes |-> 0, configures |-> 1]

\* what canvasOp records of an operation: same tells whether the stored
\* size equalled the computed size when it began, kept whether it left the
\* stored size and the canvas backing size as they were
CanvasOp(name, id, threw, same, kept, r) ==
    [name |-> name, id |-> id, threw |-> threw, same |-> same,
     kept |-> kept, resizes |-> r.resizes, writes |-> r.writes,
     configures |-> r.configures]

Nothing == [resizes |-> 0, writes |-> 0, configures |-> 0]

\* CanvasManager registers a surface: a CanvasContext is constructed for it.
\* ok = FALSE is a canvas for which getContext('webgpu') yields null: the
\* constructor throws in configure() and nothing is registered.
Register(id, ok) ==
    /\ id \notin registered
    /\ IF ok
       THEN LET r == ConstructResult(canvasEl[id]) IN
            /\ registered' = registered \cup {id}
            /\ size' = [size EXCEPT ![id] = r.size]
            /\ configureCalls' =
                   [configureCalls EXCEPT ![id] = @ + r.configures]
            /\ changed' = [changed EXCEPT ![id] = FALSE]
            /\ canvasOp' = CanvasOp("register", id, FALSE, FALSE, TRUE, r)
       ELSE /\ UNCHANGED <<registered, size, configureCalls, changed>>
            /\ canvasOp' =
                   CanvasOp("register", id, TRUE, FALSE, TRUE, Nothing)
    /\ UNCHANGED <<canvasEl, devicePixelRatio>>
    /\ UNCHANGED <<cacheVars, engineVars>>

UpdateSize(id) ==
    /\ id \in registered
    /\ LET el == canvasEl[id]
           r == UpdateSizeResult(size[id], el, devicePixelRatio)
       IN
       /\ size' = [size EXCEPT ![id] = r.size]
       /\ canvasEl' = [canvasEl EXCEPT ![id] = r.el]
       /\ configureCalls' = [configureCalls EXCEPT ![id] = @ + r.configures]
       /\ canvasOp' =
              CanvasOp("updateSize", id, FALSE,
                       size[id] = ComputedSize(el, devicePixelRatio),
                       r.size = size[id] /\ r.el = el, r)
    /\ changed' = [changed EXCEPT ![id] = FALSE]
    /\ UNCHANGED <<devicePixelRatio, registered>>
    /\ UNCHANGED <<cacheVars, engineVars>>

\* a direct call of the public method resize(width, height)
Resize(id, width, height) ==
    /\ id \in registered
    /\ LET el == canvasEl[id]
           r == ResizeResult(el, width, height)
       IN
       /\ size' = [size EXCEPT ![id] = r.size]
       /\ canvasEl' = [canvasEl EXCEPT ![id] = r.el]
       /\ canvasOp' = CanvasOp("resize", id, FALSE, FALSE,
                               r.size = size[id] /\ r.el = el, r)
    /\ UNCHANGED <<devicePixelRatio, registered, configureCalls, changed>>
    /\ UNCHANGED <<cacheVars, engineVars>>

\* the page lays the canvas out at a new displayed size
Relayout(id, w, h) ==
    /\ <<w, h>> # <<canvasEl[id].clientWidth, canvasEl[id].clientHeight>>
    /\ canvasEl' = [canvasEl EXCEPT ![id].clientWidth = w,
                                    ![id].clientHeight = h]
    /\ changed' = [changed EXCEPT ![id] = TRUE]
    /\ canvasOp' = CanvasOp("relayout", id, FALSE, FALSE, TRUE, Nothing)
    /\ UNCHANGED <<devicePixelRatio, registered, size, configureCalls>>
    /\ UNCHANGED <<cacheVars, engineVars>>

\* the window moves to a screen of another pixel density
SetDevicePixelRatio(r) ==
    /\ r # devicePixelRatio
    /\ devicePixelRatio' = r
    /\ changed' = [id \in CanvasIds |-> TRUE]
    /\ canvasOp' =
           CanvasOp("devicePixelRatio", "", FALSE, FALSE, TRUE, Nothing)
    /\ UNCHANGED <<canvasEl, registered, size, configureCalls>>
    /\ UNCHANGED <<cacheVars, engineVars>>

(***************************************************************************)
(* PipelineManager                                                         *)
(***************************************************************************)

\* the cache key Engine.renderCamera builds for a color format
PipelineKey(format) == "basic_" \o format

Keys == {PipelineKey(f) : f \in Formats} \cup {"custom"}

\* the cache state a PipelineManager carries, with its history
CacheOf(pl, np, b, rt, cl) ==
    [pipelines |-> pl, nextPipeline |-> np, builds |-> b, returned |-> rt,
     calls |-> cl]

\* what one getOrCreate(key) call that returned ret, after built builder
\* invocations, leaves: the map pl and the history
Called(c, key, pl, built, ret) ==
    [pipelines |-> pl,
     nextPipeline |-> c.nextPipeline + built,
     builds |-> [c.builds EXCEPT ![key] = @ + built],
     returned |-> [c.returned EXCEPT ![key] = @ \cup {ret}],
     calls |-> [c.calls EXCEPT ![key] = Min(@ + 1, MaxCalls)],
     built |-> built, ret |-> ret]

\* Map.set(key, p)
MapSet(pl, key, p) ==
    [k \in DOMAIN pl \cup {key} |-> IF k = key THEN p ELSE pl[k]]

GetOrCreateAlwaysBuilds(c, key) ==
    LET p == c.nextPipeline + 1 IN
    Called(c, key, MapSet(c.pipelines, key, p), 1, p)

GetOrCreateNeverStores(c, key) ==
    IF key \in DOMAIN c.pipelines
    THEN Called(c, key, c.pipelines, 0, c.pipelines[key])
    ELSE Called(c, key, c.pipelines, 1, c.nextPipeline + 1)

\* PipelineManager.getOrCreate(key, descriptor): on a miss the descriptor
\* builder runs, device.createRenderPipeline makes a new pipeline object
\* (the next unused identity) and the map stores it
GetOrCreateResult(c, key) ==
    IF key \in DOMAIN c.pipelines
    THEN Called(c, key, c.pipelines, 0, c.pipelines[key])
    ELSE LET p == c.nextPipeline + 1 IN
         Called(c, key, MapSet(c.pipelines, key, p), 1, p)

\* PipelineManager.get(key): the pipeline, or 0 for null
GetResult(pl, key) == IF key \in DOMAIN pl THEN pl[key] ELSE 0

\* a remove that answers like Map.delete and leaves the entry in place
RemoveKeepsEntry(pl, key) == [pipelines |-> pl, ret |-> key \in DOMAIN pl]

\* PipelineManager.remove(key): Map.delete
RemoveResult(pl, key) ==
    [pipelines |-> [k \in DOMAIN pl \ {key} |-> pl[k]],
     ret |-> key \in DOMAIN pl]

\* PipelineManager.clear(): Map.clear
ClearResult(pl) == [k \in {} |-> 0]

GetOrCreate(key) ==
    LET r == GetOrCreateResult(
                 CacheOf(pipelines, nextPipeline, builds, returned, calls),
                 key)
    IN
    /\ r.nextPipeline <= MaxPipelines
    /\ pipelines' = r.pipelines
    /\ nextPipeline' = r.nextPipeline
    /\ builds' = r.builds
    /\ returned' = r.returned
    /\ calls' = r.calls
    /\ UNCHANGED <<passPipelines, canvasVars, engineVars>>

\* a call of get(key): it returns GetResult and changes nothing
Get(key) ==
    /\ GetResult(pipelines, key) \in 0..nextPipeline
    /\ UNCHANGED <<cacheVars, canvasVars, engineVars>>

Remove(key) ==
    LET r == RemoveResult(pipelines, key) IN
    /\ pipelines' = r.pipelines
    /\ builds' = [builds EXCEPT ![key] = 0]
    /\ returned' = [returned EXCEPT ![key] = {}]
    /\ calls' = [calls EXCEPT ![key] = 0]
    /\ passPipelines' = [passPipelines EXCEPT ![key] = {}]
    /\ UNCHANGED <<nextPipeline, canvasVars, engineVars>>

Clear ==
    /\ pipelines' = ClearResult(pipelines)
    /\ builds' = [k \in Keys |-> 0]
    /\ returned' = [k \in Keys |-> {}]
    /\ calls' = [k \in Keys |-> 0]
    /\ passPipelines' = [k \in Keys |-> {}]
    /\ UNCHANGED <<nextPipeline, canvasVars, engineVars>>

(***************************************************************************)
(* Engine                                                                  *)
(***************************************************************************)
SceneIds == {"s1", "s2"}

\* RenderTarget: { type: 'canvas', canvasId } | { type: 'texture', texture,
\* width, height }
CanvasTarget(id) ==
    [type |-> "canvas", canvasId |-> id, width |-> 0, height |-> 0]
TextureTarget(w, h) ==
    [type |-> "texture", canvasId |-> "", width |-> w, height |-> h]

\* Mesh: vertexBuffer, indexBuffer?, indexCount, vertexCount
Mesh(hasIndexBuffer, indexCount, vertexCount) ==
    [hasIndexBuffer |-> hasIndexBuffer, indexCount |-> indexCount,
     vertexCount |-> vertexCount]

\* ICamera, with PerspectiveCamera's aspect (<<0, 0>> until it is set)
Camera(target, perspective, enabled, order, scene) ==
    [target |-> target, perspective |-> perspective, enabled |-> enabled,
     order |-> order, scene |-> scene, aspect |-> <<0, 0>>]

\* one call the engine makes on the device, the encoder, a pass or a
\* collaborator: cam is the camera (its position in cameras), r the
\* renderable (its position in the scene), 0 where there is none
Ev(ev, cam, r, n, s) == [ev |-> ev, cam |-> cam, r |-> r, n |-> n, s |-> s]

\* Engine.beginFrame at time now: the frame record's lastDeltaTime and the
\* new _lastFrameTime
BeginFrameNoFirstCheck(last, now) ==
    [lastDeltaTime |-> now - last, lastFrameTime |-> now]

BeginFrameResult(last, now) ==
    [lastDeltaTime |-> IF last = 0 THEN 0 ELSE now - last,
     lastFrameTime |-> now]

\* Engine.buildRenderStack at time now, _lastFrameTime being last: the
\* delta-time it passes to sceneManager.update
BuildRenderStackDelta(last, now) == IF last = 0 THEN 0 ELSE now - last

\* SceneManager.getRenderCameras: the enabled cameras, by ascending order,
\* ties in iteration order (positions in cameras)
RECURSIVE SortedByOrder(_, _)
SortedByOrder(cams, S) ==
    IF S = {} THEN << >>
    ELSE LET m == CHOOSE i \in S : \A j \in S :
                      \/ cams[i].order < cams[j].order
                      \/ cams[i].order = cams[j].order /\ i <= j
         IN <<m>> \o SortedByOrder(cams, S \ {m})

\* the enabled cameras as the collaborator holds them, unsorted
GetRenderCamerasAsHeld(cams) ==
    LET Enabled(i) == cams[i].enabled IN
    SelectSeq([i \in 1..Len(cams) |-> i], Enabled)

GetRenderCameras(cams) ==
    SortedByOrder(cams, {i \in 1..Len(cams) : cams[i].enabled})

DrawCallNeverIndexed(mesh, cam, r) ==
    <<Ev("draw", cam, r, mesh.vertexCount, "")>>

\* the draw renderCamera encodes for one mesh
DrawCall(mesh, cam, r) ==
    IF mesh.hasIndexBuffer
    THEN <<Ev("setIndexBuffer", cam, r, 0, "uint16"),
           Ev("drawIndexed", cam, r, mesh.indexCount, "")>>
    ELSE <<Ev("draw", cam, r, mesh.vertexCount, "")>>

\* the body of renderCamera's loop over the renderables, from renderable i
RECURSIVE RenderablesEvents(_, _, _, _)
RenderablesEvents(meshes, cam, buffer, i) ==
    IF i > Len(meshes) THEN << >>
    ELSE <<Ev("writeBuffer", cam, i, buffer, ""),
           Ev("createBindGroup", cam, i, buffer, ""),
           Ev("setBindGroup", cam, i, 0, ""),
           Ev("setVertexBuffer", cam, i, 0, "")>>
         \o DrawCall(meshes[i], cam, i)
         \o RenderablesEvents(meshes, cam, buffer, i + 1)

\* renderCamera's early return for a canvas id without a context:
\* console.warn, nothing else
SkipCameraThrows(es, ci) ==
    [es EXCEPT !.threw = TRUE]

\* a skip that notices the missing context only after allocating the
\* uniform buffer
SkipCameraAllocates(es, ci) ==
    [es EXCEPT !.uniformBuffer = IF @ = 0 THEN 1 ELSE @,
               !.log = @ \o (IF es.uniformBuffer = 0
                             THEN <<Ev("createBuffer", ci, 0, 192, "")>>
                             ELSE << >>)
                         \o <<Ev("warn", ci, 0, 0,
                                 es.cameras[ci].target.canvasId)>>]

SkipCamera(es, ci) ==
    [es EXCEPT !.log = Append(@, Ev("warn", ci, 0, 0,
                                    es.cameras[ci].target.canvasId))]

\* whether renderCamera calls camera.updateAspect: a canvas target and a
\* PerspectiveCamera
SetsAspectAlways(camera) == TRUE

SetsAspect(camera) == camera.target.type = "canvas" /\ camera.perspective

\* the buffer _uniformBuffer holds after renderCamera's lazy allocation;
\* a buffer created by device.createBuffer is the next unused identity
UniformBufferAlwaysNew(current) == current + 1

UniformBufferFor(current) == IF current = 0 THEN 1 ELSE current

\* passEncoder.end()
EndPassMissing(ci) == << >>

EndPass(ci) == <<Ev("end", ci, 0, 0, "")>>

\* renderCamera once the target is resolved: pipeline, uniform buffer,
\* render pass and draws
EncodeCamera(es, ci) ==
    LET camera == es.cameras[ci]
        target == camera.target
        isCanvas == target.type = "canvas"
        width == IF isCanvas THEN canvasEl[target.canvasId].width
                 ELSE target.width
        height == IF isCanvas THEN canvasEl[target.canvasId].height
                  ELSE target.height
        setsAspect == SetsAspect(camera)
        key == PipelineKey(preferredFormat)
        g == GetOrCreateResult(es.cache, key)
        buffer == UniformBufferFor(es.uniformBuffer)
        events ==
            (IF isCanvas
             THEN <<Ev("getCurrentTexture", ci, 0, 0, target.canvasId)>>
             ELSE << >>)
            \o <<Ev("createView", ci, 0, 0, "")>>
            \o (IF setsAspect
                THEN <<Ev("updateAspect", ci, 0, 0, "")>> ELSE << >>)
            \o <<Ev("getOrCreate", ci, 0, g.ret, key)>>
            \o (IF g.built = 1
                THEN <<Ev("createRenderPipeline", ci, 0, g.ret,
                          preferredFormat)>>
                ELSE << >>)
            \o (IF buffer # es.uniformBuffer
                THEN <<Ev("createBuffer", ci, 0, 192, "")>> ELSE << >>)
            \o <<Ev("beginRenderPass", ci, 0, 0, ""),
                 Ev("setPipeline", ci, 0, g.ret, key),
                 Ev("getViewMatrix", ci, 0, 0, ""),
                 Ev("getProjectionMatrix", ci, 0, 0, "")>>
            \o RenderablesEvents(scenes[camera.scene], ci, buffer, 1)
            \o EndPass(ci)
    IN [es EXCEPT
           !.cache = CacheOf(g.pipelines, g.nextPipeline, g.builds,
                             g.returned, g.calls),
           !.passPipelines = [@ EXCEPT ![key] = @ \cup {g.ret}],
           !.uniformBuffer = buffer,
           !.cameras = IF setsAspect
                       THEN [@ EXCEPT ![ci].aspect = <<width, height>>]
                       ELSE @,
           !.log = @ \o events]

\* Engine.renderCamera(cameras[ci], commandEncoder) on the engine state es;
\* an exception thrown for an earlier camera has already left RenderLoop
RenderCameraResult(es, ci) ==
    LET target == es.cameras[ci].target IN
    IF es.threw THEN es
    ELSE IF target.type = "canvas" /\ target.canvasId \notin registered
    THEN SkipCamera(es, ci)
    ELSE EncodeCamera(es, ci)

\* RenderLoop's for loop over getRenderCameras(), from position i of order
RECURSIVE RenderCameras(_, _, _)
RenderCameras(es, order, i) ==
    IF i > Len(order) THEN es
    ELSE RenderCameras(RenderCameraResult(es, order[i]), order, i + 1)

\* whose matrices the uniform buffer holds while the submitted command
\* buffer executes, as <<camera, renderable>>: queue.writeBuffer takes
\* effect on the queue when renderCamera calls it, the draws recorded in
\* the encoder run only at queue.submit in endFrame, after every write of
\* the frame, so they all read what the last write left
UniformsAtSubmit(log) ==
    LET IsWrite(e) == e.ev = "writeBuffer"
        writes == SelectSeq(log, IsWrite)
    IN IF writes = << >> THEN <<0, 0>>
       ELSE <<writes[Len(writes)].cam, writes[Len(writes)].r>>

\* what RenderLoop does before its loop over the cameras: beginFrame opens
\* the command encoder, buildRenderStack calls sceneManager.update
FrameOpeningNoUpdate(sceneDelta) ==
    <<Ev("createCommandEncoder", 0, 0, 0, "")>>

FrameOpening(sceneDelta) ==
    <<Ev("createCommandEncoder", 0, 0, 0, ""),
      Ev("update", 0, 0, sceneDelta, "")>>

\* Engine.endFrame: commandEncoder.finish(), then queue.submit of the one
\* command buffer
EndFrameSubmitsTwice ==
    <<Ev("finish", 0, 0, 0, ""), Ev("submit", 0, 0, 0, ""),
      Ev("submit", 0, 0, 0, "")>>

EndFrame == <<Ev("finish", 0, 0, 0, ""), Ev("submit", 0, 0, 0, "")>>

\* Engine.RenderLoop: performance.now() returns clock + dt in beginFrame and
\* dt2 more in buildRenderStack.  updateThrows is a scene collaborator whose
\* update hook throws: RenderLoop catches nothing, so the exception leaves
\* it there, before the loop over the cameras and before endFrame.
RenderLoopWith(dt, dt2, updateThrows) ==
    LET now == clock + dt
        now2 == now + dt2
        b == BeginFrameResult(lastFrameTime, now)
        sceneDelta == BuildRenderStackDelta(b.lastFrameTime, now2)
        order == GetRenderCameras(cameras)
        es0 == [cache |-> CacheOf(pipelines, nextPipeline, builds, returned,
                                  calls),
                passPipelines |-> passPipelines,
                uniformBuffer |-> uniformBuffer,
                cameras |-> cameras,
                threw |-> updateThrows,
                log |-> FrameOpening(sceneDelta)]
        es == RenderCameras(es0, order, 1)
    IN
    /\ now2 <= MaxTime
    /\ es.cache.nextPipeline <= MaxPipelines
    /\ clock' = now2
    /\ lastFrameTime' = b.lastFrameTime
    /\ pipelines' = es.cache.pipelines
    /\ nextPipeline' = es.cache.nextPipeline
    /\ builds' = es.cache.builds
    /\ returned' = es.cache.returned
    /\ calls' = es.cache.calls
    /\ passPipelines' = es.passPipelines
    /\ uniformBuffer' = es.uniformBuffer
    /\ cameras' = es.cameras
    /\ frame' = [ran |-> TRUE, first |-> ~frame.ran,
                 lastDeltaTime |-> b.lastDeltaTime,
                 sceneDelta |-> sceneDelta,
                 order |-> order,
                 registered |-> registered,
                 sizes |-> [id \in CanvasIds |->
                               <<canvasEl[id].width, canvasEl[id].height>>],
                 bufferBefore |-> uniformBuffer,
                 threw |-> es.threw,
                 log |-> IF es.threw THEN es.log ELSE es.log \o EndFrame]
    /\ UNCHANGED <<preferredFormat, scenes, canvasVars>>

\* RenderLoop with a scene collaborator whose update hook returns
RenderLoop(dt, dt2) == RenderLoopWith(dt, dt2, FALSE)

(***************************************************************************)
(* Initial states and specifications                                       *)
(***************************************************************************)

\* an HTML canvas has a backing size of its own before anything resizes it
\* (300 x 150 by default; 3 x 1 at this model's scale)
NewCanvas(cw, ch) ==
    [width |-> 3, height |-> 1, clientWidth |-> cw, clientHeight |-> ch]

NoFrame ==
    [ran |-> FALSE, first |-> FALSE, lastDeltaTime |-> 0, sceneDelta |-> 0,
     order |-> << >>, registered |-> {},
     sizes |-> [id \in CanvasIds |-> <<0, 0>>], bufferBefore |-> 0,
     threw |-> FALSE, log |-> << >>]

InitCanvasManager ==
    /\ canvasOp = CanvasOp("none", "", FALSE, FALSE, TRUE, Nothing)
    /\ registered = {}
    /\ size = [id \in CanvasIds |-> [width |-> 0, height |-> 0]]
    /\ configureCalls = [id \in CanvasIds |-> 0]
    /\ changed = [id \in CanvasIds |-> FALSE]

InitCache ==
    /\ pipelines = [k \in {} |-> 0]
    /\ nextPipeline = 0
    /\ builds = [k \in Keys |-> 0]
    /\ returned = [k \in Keys |-> {}]
    /\ calls = [k \in Keys |-> 0]
    /\ passPipelines = [k \in Keys |-> {}]

InitEngine ==
    /\ clock = 0
    /\ lastFrameTime = 0
    /\ uniformBuffer = 0
    /\ frame = NoFrame

\* the scene of the spec's draw scenario: an indexed mesh of 6 indices and
\* a mesh of 3 vertices without an index buffer
FixedScenes ==
    [s \in SceneIds |->
        IF s = "s1" THEN <<Mesh(TRUE, 6, 4), Mesh(FALSE, 0, 3)>>
        ELSE <<Mesh(FALSE, 0, 3)>>]

Targets == {CanvasTarget(id) : id \in CanvasIds} \cup {TextureTarget(2, 1)}

SeqsUpTo(S, n) == UNION {[1..k -> S] : k \in 0..n}

\* ---- the engine, over every list of cameras; a frame every millisecond
CameraChoices ==
    {Camera(t, TRUE, e, 0, "s1") : t \in Targets, e \in BOOLEAN}

Init ==
    /\ canvasEl = [id \in CanvasIds |-> NewCanvas(2, 1)]
    /\ devicePixelRatio = RatioDen
    /\ InitCanvasManager
    /\ InitCache
    /\ InitEngine
    /\ preferredFormat \in Formats
    /\ cameras \in SeqsUpTo(CameraChoices, MaxCameras)
    /\ scenes = FixedScenes

Next ==
    \/ \E id \in CanvasIds, ok \in BOOLEAN : Register(id, ok)
    \/ RenderLoop(1, 0)
    \/ \E k \in Keys : Remove(k)
    \/ Clear

Spec == Init /\ [][Next]_vars

\* ---- the engine's clock: frames at every pace ---------------------------
InitTime ==
    /\ canvasEl = [id \in CanvasIds |-> NewCanvas(2, 1)]
    /\ devicePixelRatio = RatioDen
    /\ InitCanvasManager
    /\ InitCache
    /\ InitEngine
    /\ preferredFormat = "bgra8unorm"
    /\ cameras = <<Camera(CanvasTarget("c1"), TRUE, TRUE, 0, "s1")>>
    /\ scenes = FixedScenes

NextTime ==
    \/ \E ok \in BOOLEAN : Register("c1", ok)
    \/ \E dt \in 0..MaxStep, dt2 \in 0..MaxStep : RenderLoop(dt, dt2)

SpecTime == InitTime /\ [][NextTime]_vars

\* ---- the engine, over every scene -------------------------------------
Meshes == {Mesh(TRUE, 6, 4), Mesh(FALSE, 0, 3), Mesh(FALSE, 6, 3)}

InitDraw ==
    /\ canvasEl = [id \in CanvasIds |-> NewCanvas(2, 1)]
    /\ devicePixelRatio = RatioDen
    /\ InitCanvasManager
    /\ InitCache
    /\ InitEngine
    /\ preferredFormat = "bgra8unorm"
    /\ cameras = <<Camera(CanvasTarget("c1"), TRUE, TRUE, 0, "s1"),
                   Camera(TextureTarget(2, 1), FALSE, TRUE, 0, "s2")>>
    /\ scenes \in [SceneIds -> SeqsUpTo(Meshes, MaxRenderables)]

NextDraw ==
    \/ \E ok \in BOOLEAN : Register("c1", ok)
    \/ RenderLoop(1, 0)

SpecDraw == InitDraw /\ [][NextDraw]_vars

\* ---- the pipeline cache alone -----------------------------------------
InitIdleEngine ==
    /\ InitEngine
    /\ preferredFormat = "bgra8unorm"
    /\ cameras = << >>
    /\ scenes = FixedScenes

InitCacheOnly ==
    /\ canvasEl = [id \in CanvasIds |-> NewCanvas(2, 1)]
    /\ devicePixelRatio = RatioDen
    /\ InitCanvasManager
    /\ InitCache
    /\ InitIdleEngine

NextCache ==
    \/ \E k \in Keys : GetOrCreate(k)
    \/ \E k \in Keys : Get(k)
    \/ \E k \in Keys : Remove(k)
    \/ Clear

SpecCache == InitCacheOnly /\ [][NextCache]_vars

\* ---- one surface context alone: the page lays the canvas "c1" out at
\*      every size and density ---------------------------------------------
InitCanvas ==
    /\ canvasEl \in {[id \in CanvasIds |->
                         IF id = "c1" THEN NewCanvas(w, h)
                         ELSE NewCanvas(2, 1)] :
                     w \in DisplayRange, h \in DisplayRange}
    /\ devicePixelRatio \in PixelRatios
    /\ InitCanvasManager
    /\ InitCache
    /\ InitIdleEngine

NextCanvas ==
    \/ \E ok \in BOOLEAN : Register("c1", ok)
    \/ UpdateSize("c1")
    \/ \E w \in DisplayRange, h \in DisplayRange : Resize("c1", w, h)
    \/ \E w \in DisplayRange, h \in DisplayRange : Relayout("c1", w, h)
    \/ \E r \in PixelRatios : SetDevicePixelRatio(r)

SpecCanvas == InitCanvas /\ [][NextCanvas]_vars

\* ---- the engine with a scene collaborator whose update hook may throw ----
NextFrame ==
    \/ \E id \in CanvasIds, ok \in BOOLEAN : Register(id, ok)
    \/ RenderLoop(1, 0)
    \/ RenderLoopWith(1, 0, TRUE)

SpecFrame == Init /\ [][NextFrame]_vars

\* ---- the engine over cameras of every priority, enabled or not ----------
OrderedCameraChoices ==
    {Camera(t, TRUE, e, o, "s1") :
        t \in {CanvasTarget("c1"), TextureTarget(2, 1)},
        e \in BOOLEAN, o \in 0..MaxOrder}

InitOrder ==
    /\ canvasEl = [id \in CanvasIds |-> NewCanvas(2, 1)]
    /\ devicePixelRatio = RatioDen
    /\ InitCanvasManager
    /\ InitCache
    /\ InitEngine
    /\ preferredFormat = "bgra8unorm"
    /\ cameras \in SeqsUpTo(OrderedCameraChoices, MaxCameras)
    /\ scenes = FixedScenes

NextOrder ==
    \/ \E ok \in BOOLEAN : Register("c1", ok)
    \/ RenderLoop(1, 0)

SpecOrder == InitOrder /\ [][NextOrder]_vars

\* ---- the engine while the page lays the canvas "c1" out at other sizes:
\*      cameras of both kinds on the canvas and on an off-screen texture ----
InitAspect ==
    /\ canvasEl = [id \in CanvasIds |-> NewCanvas(2, 1)]
    /\ devicePixelRatio = RatioDen
    /\ InitCanvasManager
    /\ InitCache
    /\ InitEngine
    /\ preferredFormat = "bgra8unorm"
    /\ cameras = <<Camera(CanvasTarget("c1"), TRUE, TRUE, 0, "s2"),
                   Camera(CanvasTarget("c1"), FALSE, TRUE, 0, "s2"),
                   Camera(TextureTarget(2, 1), TRUE, TRUE, 0, "s2")>>
    /\ scenes = FixedScenes

NextAspect ==
    \/ \E ok \in BOOLEAN : Register("c1", ok)
    \/ \E w \in DisplayRange : Relayout("c1", w, 1)
    \/ UpdateSize("c1")
    \/ RenderLoop(1, 0)

SpecAspect == InitAspect /\ [][NextAspect]_vars

(***************************************************************************)
(* Properties                                                              *)
(***************************************************************************)

\* the events of a frame's log named ev that belong to camera cam
EventsOf(log, evs, cam) ==
    LET Test(e) == e.ev \in evs /\ e.cam = cam IN SelectSeq(log, Test)

\* the events of a frame's log named ev, of any camera
EventsNamed(log, evs) ==
    LET Test(e) == e.ev \in evs IN SelectSeq(log, Test)

\* ---- C1 ---------------------------------------------------------------
\* C1: for every key, since the key was last evicted (remove or clear),
\* once getOrCreate has been called for it the builder has run exactly
\* once, every call has returned the one pipeline object the map holds for
\* the key, and nothing is counted or held for a key never asked for.
C1_BuilderRunsOnce ==
    \A k \in Keys :
        /\ builds[k] <= 1
        /\ calls[k] >= 1 =>
               /\ builds[k] = 1
               /\ k \in DOMAIN pipelines
               /\ returned[k] = {pipelines[k]}
        /\ calls[k] = 0 => builds[k] = 0 /\ returned[k] = {}

\* a key asked for at least twice since it was last evicted, after another
\* pipeline had been compiled
C1_Witness ==
    \E k \in Keys :
        calls[k] >= 2 /\ k \in DOMAIN pipelines /\ nextPipeline >= 2

\* ---- C2 ---------------------------------------------------------------
\* C2: for every format key, since it was last evicted, the engine's
\* render passes have been given at most one pipeline object, the one the
\* cache holds, compiled by a single builder run; and within one frame
\* every render pass is given the same pipeline and at most one pipeline
\* is compiled.
C2_OnePipelinePerFormat ==
    /\ \A k \in Keys :
           /\ Cardinality(passPipelines[k]) <= 1
           /\ passPipelines[k] # {} =>
                  /\ builds[k] = 1
                  /\ k \in DOMAIN pipelines
                  /\ passPipelines[k] = {pipelines[k]}
    /\ \A i, j \in 1..Len(frame.log) :
           frame.log[i].ev = "setPipeline" /\ frame.log[j].ev = "setPipeline"
               => frame.log[i].n = frame.log[j].n
    /\ Len(EventsNamed(frame.log, {"createRenderPipeline"})) <= 1

\* a later frame in which two cameras each got a render pass, the key
\* having been asked for in an earlier frame too and not evicted since
C2_Witness ==
    /\ frame.ran /\ ~frame.first
    /\ Len(EventsNamed(frame.log, {"setPipeline"})) >= 2
    /\ EventsNamed(frame.log, {"createRenderPipeline"}) = << >>
    /\ calls[PipelineKey(preferredFormat)] >= 3

\* ---- C3 ---------------------------------------------------------------
\* C3: the delta-time beginFrame computes is 0 in the first frame and is
\* never negative in any frame.
C3_DeltaTime ==
    frame.ran =>
        /\ frame.first => frame.lastDeltaTime = 0
        /\ frame.lastDeltaTime >= 0

\* a later frame whose delta-time is positive
C3_Witness == frame.ran /\ ~frame.first /\ frame.lastDeltaTime > 0

\* ---- C4 ---------------------------------------------------------------
\* C4: the delta-time passed to sceneManager.update in a frame equals the
\* lastDeltaTime of that frame's record.
C4_UpdateGetsFrameDelta ==
    frame.ran => frame.sceneDelta = frame.lastDeltaTime

\* ---- C5..C8 ------------------------------------------------------------
\* floor(display x density), stated from the definition of floor: the
\* integer n with n <= display * num / RatioDen < n + 1, where the density
\* num / RatioDen is 1 when devicePixelRatio is missing or zero
FloorOfProduct(display, dpr) ==
    LET num == IF dpr = 0 THEN RatioDen ELSE dpr IN
    CHOOSE n \in 0..(display * num) :
        n * RatioDen <= display * num /\ display * num < (n + 1) * RatioDen

EffectiveSize(id) ==
    [width  |-> FloorOfProduct(canvasEl[id].clientWidth, devicePixelRatio),
     height |-> FloorOfProduct(canvasEl[id].clientHeight, devicePixelRatio)]

BackingSize(id) ==
    [width |-> canvasEl[id].width, height |-> canvasEl[id].height]

\* C5: an updateSize call that finds the stored size equal to
\* floor(displayed size x pixel density) leaves the stored size and the
\* canvas backing size as they were, assigns neither canvas.width nor
\* canvas.height, and calls neither resize nor configure.
C5_UpdateSizeNoOp ==
    canvasOp.name = "updateSize" /\ canvasOp.same =>
        /\ canvasOp.kept
        /\ canvasOp.writes = 0
        /\ canvasOp.resizes = 0
        /\ canvasOp.configures = 0

\* an updateSize call that found the size unchanged, on a context whose
\* size an earlier call had changed from the canvas's initial backing size
C5_Witness ==
    /\ canvasOp.name = "updateSize" /\ canvasOp.same
    /\ size[canvasOp.id] # [width |-> 3, height |-> 1]

\* C6: an updateSize call reconfigures the presentation chain (calls
\* configure) exactly once when it finds the effective size changed, and
\* not at all when it finds it unchanged.
C6_ReconfiguredOncePerChange ==
    canvasOp.name = "updateSize" =>
        canvasOp.configures = (IF canvasOp.same THEN 0 ELSE 1)

\* C7: right after updateSize returns, the stored size is
\* (floor(displayedWidth x density), floor(displayedHeight x density)),
\* a missing or zero devicePixelRatio counting as 1, and the canvas backing
\* width and height equal the stored size.
C7_SizeAfterUpdateSize ==
    canvasOp.name = "updateSize" =>
        /\ size[canvasOp.id] = EffectiveSize(canvasOp.id)
        /\ BackingSize(canvasOp.id) = size[canvasOp.id]

\* an updateSize call that changed the size where the product is not an
\* integer, so that the floor rounds down
C7_Witness ==
    /\ canvasOp.name = "updateSize" /\ ~canvasOp.same
    /\ devicePixelRatio # 0
    /\ (canvasEl[canvasOp.id].clientWidth * devicePixelRatio) % RatioDen # 0
    /\ size[canvasOp.id].width > 0

\* C8: for every registered surface, while the displayed size and the
\* pixel density have not changed since registration or the last
\* updateSize call, the stored size is floor(displayed size x density).
C8_SizeTracksDisplay ==
    \A id \in registered :
        ~changed[id] => size[id] = EffectiveSize(id)

\* ---- C9 ---------------------------------------------------------------
\* whether camera ci's target resolved in the last frame
Resolved(ci) ==
    \/ cameras[ci].target.type = "texture"
    \/ cameras[ci].target.canvasId \in frame.registered

\* C9: in every frame RenderLoop does not throw and ends with finish and
\* submit; every camera it iterates whose canvas id has no context gets a
\* warning and no render pass; every camera whose target resolves gets
\* one render pass, begun and ended, with one draw per renderable of its
\* scene.
C9_SkipIsNotFatal ==
    frame.ran =>
        /\ ~frame.threw
        /\ Len(frame.log) >= 2
        /\ frame.log[Len(frame.log) - 1].ev = "finish"
        /\ frame.log[Len(frame.log)].ev = "submit"
        /\ \A k \in 1..Len(frame.order) :
               LET ci == frame.order[k] IN
               IF Resolved(ci)
               THEN /\ Len(EventsOf(frame.log, {"beginRenderPass"}, ci)) = 1
                    /\ Len(EventsOf(frame.log, {"end"}, ci)) = 1
                    /\ Len(EventsOf(frame.log, {"draw", "drawIndexed"}, ci))
                           = Len(scenes[cameras[ci].scene])
                    /\ EventsOf(frame.log, {"warn"}, ci) = << >>
               ELSE /\ Len(EventsOf(frame.log, {"warn"}, ci)) = 1
                    /\ EventsOf(frame.log,
                                {"beginRenderPass", "draw", "drawIndexed"},
                                ci) = << >>

\* a frame in which a camera was skipped and a camera after it was drawn
C9_Witness ==
    /\ frame.ran
    /\ \E i, j \in 1..Len(frame.log) :
           /\ i < j
           /\ frame.log[i].ev = "warn"
           /\ frame.log[j].ev = "drawIndexed"
           /\ frame.log[j].cam # frame.log[i].cam

\* ---- C10 --------------------------------------------------------------
\* the draw expected for renderable r of camera ci
ExpectedDraw(ci, r) ==
    LET mesh == scenes[cameras[ci].scene][r] IN
    IF mesh.hasIndexBuffer
    THEN Ev("drawIndexed", ci, r, mesh.indexCount, "")
    ELSE Ev("draw", ci, r, mesh.vertexCount, "")

\* C10: in every frame, for every camera whose target resolved, the draw
\* calls of its render pass are, in the scene's renderable order, one per
\* renderable: drawIndexed(indexCount) when the mesh has an index buffer,
\* draw(vertexCount) otherwise; every drawIndexed directly follows a
\* setIndexBuffer of format uint16 for the same renderable, and every draw
\* lies between the camera's beginRenderPass and end.
C10_OneDrawPerRenderable ==
    frame.ran =>
        \A k \in 1..Len(frame.order) :
            LET ci == frame.order[k] IN
            Resolved(ci) =>
                /\ EventsOf(frame.log, {"draw", "drawIndexed"}, ci)
                       = [r \in 1..Len(scenes[cameras[ci].scene]) |->
                              ExpectedDraw(ci, r)]
                /\ \A i \in 1..Len(frame.log) :
                       LET e == frame.log[i] IN
                       /\ e.cam = ci /\ e.ev = "drawIndexed" =>
                              /\ i > 1
                              /\ frame.log[i - 1] =
                                     Ev("setIndexBuffer", ci, e.r, 0, "uint16")
                       /\ e.cam = ci /\ e.ev \in {"draw", "drawIndexed"} =>
                              /\ \E b \in 1..(i - 1) :
                                     frame.log[b] =
                                         Ev("beginRenderPass", ci, 0, 0, "")
                              /\ \E d \in (i + 1)..Len(frame.log) :
                                     frame.log[d] = Ev("end", ci, 0, 0, "")

\* the spec's scenario: a camera's pass holds an indexed draw of 6 indices
\* followed by a non-indexed draw of 3 vertices
C10_Witness ==
    /\ frame.ran
    /\ \E ci \in 1..Len(cameras) :
           EventsOf(frame.log, {"draw", "drawIndexed"}, ci)
               = <<Ev("drawIndexed", ci, 1, 6, ""), Ev("draw", ci, 2, 3, "")>>

\* ---- C11 --------------------------------------------------------------
\* C11: in every frame, for every canvas id, getCurrentTexture is called
\* on that canvas's context at most once.
C11_OneAcquirePerSurface ==
    frame.ran =>
        \A id \in CanvasIds :
            LET Test(e) == e.ev = "getCurrentTexture" /\ e.s = id IN
            Len(SelectSeq(frame.log, Test)) <= 1

\* ---- C12 --------------------------------------------------------------
\* C12: every frame creates exactly one command encoder, first of all; a
\* frame that does not throw finishes the encoder exactly once and submits
\* exactly once, as its last two steps, after every render pass it began
\* has been ended; a frame in which a step threw before endFrame neither
\* finishes nor submits.
C12_OneSubmitPerFrame ==
    frame.ran =>
        /\ Len(EventsNamed(frame.log, {"createCommandEncoder"})) = 1
        /\ frame.log[1].ev = "createCommandEncoder"
        /\ IF frame.threw
           THEN EventsNamed(frame.log, {"finish", "submit"}) = << >>
           ELSE /\ Len(EventsNamed(frame.log, {"finish"})) = 1
                /\ Len(EventsNamed(frame.log, {"submit"})) = 1
                /\ frame.log[Len(frame.log) - 1].ev = "finish"
                /\ frame.log[Len(frame.log)].ev = "submit"
                /\ Len(EventsNamed(frame.log, {"end"}))
                       = Len(EventsNamed(frame.log, {"beginRenderPass"}))

\* a frame that did not throw and submitted two ended render passes
C12_Witness ==
    /\ frame.ran /\ ~frame.threw
    /\ Len(EventsNamed(frame.log, {"end"})) = 2
    /\ frame.log[Len(frame.log)].ev = "submit"

\* ---- C13 --------------------------------------------------------------
\* C13: in every frame sceneManager.update is called exactly once, directly
\* after the command encoder is created and before any surface image is
\* acquired, any render pass is begun and any draw is recorded.
C13_UpdateOncePerFrame ==
    frame.ran =>
        /\ Len(EventsNamed(frame.log, {"update"})) = 1
        /\ Len(frame.log) >= 2
        /\ frame.log[1].ev = "createCommandEncoder"
        /\ frame.log[2].ev = "update"
        /\ \A i \in 1..Len(frame.log) :
               frame.log[i].cam # 0 => i > 2

\* a later frame whose update was followed by a render pass with a draw
C13_Witness ==
    /\ frame.ran /\ ~frame.first
    /\ \E i \in 3..Len(frame.log) : frame.log[i].ev = "drawIndexed"

\* ---- C14 --------------------------------------------------------------
\* the cameras that were given a render pass in the frame, in the order
\* the passes were begun
PassCameras ==
    LET passes == EventsNamed(frame.log, {"beginRenderPass"}) IN
    [p \in 1..Len(passes) |-> passes[p].cam]

C15_DrawsReadOwnUniforms ==
    frame.ran /\ ~frame.threw =>
        \A i \in 1..Len(frame.log) :
            frame.log[i].ev \in {"draw", "drawIndexed"} =>
                UniformsAtSubmit(frame.log)
                    = <<frame.log[i].cam, frame.log[i].r>>

\* ---- C16 --------------------------------------------------------------
\* the number of render passes open after the first i steps of the frame
OpenPasses(i) ==
    Cardinality({j \in 1..i : frame.log[j].ev = "beginRenderPass"})
        - Cardinality({j \in 1..i : frame.log[j].ev = "end"})

\* C16: in every frame each camera whose target resolved gets exactly one
\* render pass, begun and later ended; a pass is begun only when no pass
\* is open and the pipeline is set directly after; every draw lies in the
\* open pass of its own camera, after that pass's setPipeline; and no pass
\* is open when the encoder is finished.
C16_PassesAreBracketed ==
    frame.ran =>
        /\ \A k \in 1..Len(frame.order) :
               LET ci == frame.order[k] IN
               Resolved(ci) =>
                   /\ Len(EventsOf(frame.log, {"beginRenderPass"}, ci)) = 1
                   /\ Len(EventsOf(frame.log, {"end"}, ci)) = 1
        /\ \A i \in 1..Len(frame.log) :
               LET e == frame.log[i] IN
               /\ OpenPasses(i) \in {0, 1}
               /\ e.ev = "beginRenderPass" =>
                      /\ OpenPasses(i - 1) = 0
                      /\ i < Len(frame.log)
                      /\ frame.log[i + 1].ev = "setPipeline"
                      /\ frame.log[i + 1].cam = e.cam
               /\ e.ev = "end" =>
                      \E b \in 1..(i - 1) :
                          /\ frame.log[b] = Ev("beginRenderPass", e.cam, 0, 0, "")
                          /\ \A j \in (b + 1)..(i - 1) : frame.log[j].cam = e.cam
               /\ e.ev \in {"draw", "drawIndexed"} =>
                      \E b \in 1..(i - 2) :
                          /\ frame.log[b] = Ev("beginRenderPass", e.cam, 0, 0, "")
                          /\ frame.log[b + 1].ev = "setPipeline"
                          /\ \A j \in (b + 1)..i :
                                 /\ frame.log[j].cam = e.cam
                                 /\ frame.log[j].ev # "end"
               /\ e.ev = "finish" => OpenPasses(i - 1) = 0

\* a frame with the passes of two cameras one after the other, each
\* holding a draw
C16_Witness ==
    /\ frame.ran
    /\ \E b1, d1, b2, d2 \in 1..Len(frame.log) :
           /\ b1 < d1 /\ d1 < b2 /\ b2 < d2
           /\ frame.log[b1].ev = "beginRenderPass"
           /\ frame.log[d1].ev = "end"
           /\ frame.log[b2].ev = "beginRenderPass"
           /\ frame.log[d2].ev = "end"
           /\ frame.log[b1].cam # frame.log[b2].cam
           /\ frame.log[d1 - 1].ev = "draw"
           /\ frame.log[d2 - 1].ev = "draw"

\* ---- C17 --------------------------------------------------------------
\* C17: in every frame, a perspective camera with a canvas target that
\* resolved has updateAspect called once, after the canvas's image is
\* acquired and before the projection matrix is read, and its aspect is
\* then width / height of the image acquired in that frame; a camera with
\* a texture target or a non-perspective camera gets no updateAspect
\* call and its aspect is never changed.
C17_AspectFollowsSurface ==
    /\ \A ci \in 1..Len(cameras) :
           cameras[ci].target.type = "texture" \/ ~cameras[ci].perspective
               => cameras[ci].aspect = <<0, 0>>
    /\ frame.ran =>
           \A k \in 1..Len(frame.order) :
               LET ci == frame.order[k]
                   camera == cameras[ci]
               IN
               Resolved(ci) =>
                   IF camera.target.type = "canvas" /\ camera.perspective
                   THEN /\ camera.aspect = frame.sizes[camera.target.canvasId]
                        /\ EventsOf(frame.log,
                                    {"getCurrentTexture", "updateAspect",
                                     "getProjectionMatrix"}, ci)
                               = <<Ev("getCurrentTexture", ci, 0, 0,
                                      camera.target.canvasId),
                                   Ev("updateAspect", ci, 0, 0, ""),
                                   Ev("getProjectionMatrix", ci, 0, 0, "")>>
                   ELSE EventsOf(frame.log, {"updateAspect"}, ci) = << >>

\* a later frame, after the canvas was resized, in which the perspective
\* camera on the canvas took the aspect of the resized image
C17_Witness ==
    /\ frame.ran /\ ~frame.first
    /\ \E ci \in 1..Len(cameras) :
           /\ cameras[ci].target.type = "canvas" /\ cameras[ci].perspective
           /\ cameras[ci].aspect = frame.sizes[cameras[ci].target.canvasId]
           /\ cameras[ci].aspect \notin {<<0, 0>>, <<3, 1>>}

\* ---- C18 --------------------------------------------------------------
\* C18: the engine allocates a uniform buffer at most once in its
\* lifetime: none before a camera's target first resolves, then one of
\* 3 * 16 * 4 = 192 bytes, created in the frame and for the camera where a
\* target first resolves, before that camera's pass begins; no frame that
\* starts with the buffer allocated creates another, and every write and
\* every bind group of every frame uses that one buffer.
C18_OneUniformBuffer ==
    /\ uniformBuffer \in {0, 1}
    /\ ~frame.ran => uniformBuffer = 0
    /\ frame.ran =>
           LET creates == EventsNamed(frame.log, {"createBuffer"})
               passes == EventsNamed(frame.log, {"beginRenderPass"})
           IN
           /\ uniformBuffer >= frame.bufferBefore
           /\ uniformBuffer # 0 <=>
                  (frame.bufferBefore # 0 \/ passes # << >>)
           /\ Len(creates) =
                  IF frame.bufferBefore = 0 /\ passes # << >> THEN 1 ELSE 0
           /\ \A c \in 1..Len(creates) :
                  /\ creates[c].n = 3 * 16 * 4
                  /\ creates[c].cam = passes[1].cam
           /\ \A i, j \in 1..Len(frame.log) :
                  /\ frame.log[i].ev = "createBuffer"
                  /\ frame.log[j].ev = "beginRenderPass"
                  => i < j
           /\ \A i \in 1..Len(frame.log) :
                  frame.log[i].ev \in {"writeBuffer", "createBindGroup"} =>
                      /\ frame.log[i].n = uniformBuffer
                      /\ frame.log[i].n # 0

\* a later frame that started with the buffer allocated, wrote to it for
\* two cameras and created none
C18_Witness ==
    /\ frame.ran /\ ~frame.first
    /\ frame.bufferBefore = 1
    /\ EventsNamed(frame.log, {"createBuffer"}) = << >>
    /\ \E i, j \in 1..Len(frame.log) :
           /\ frame.log[i].ev = "writeBuffer"
           /\ frame.log[j].ev = "writeBuffer"
           /\ frame.log[i].cam # frame.log[j].cam

\* ---- C19 --------------------------------------------------------------
\* what the calls answer in the current state: remove(k) answers true
\* exactly when k is cached and get(k) is null on the map it leaves; get(k)
\* answers the cached pipeline, or null; clear leaves an empty map
C19_Answers ==
    /\ \A k \in Keys :
           /\ RemoveResult(pipelines, k).ret = (k \in DOMAIN pipelines)
           /\ GetResult(RemoveResult(pipelines, k).pipelines, k) = 0
           /\ GetResult(pipelines, k) =
                  IF k \in DOMAIN pipelines THEN pipelines[k] ELSE 0
    /\ DOMAIN ClearResult(pipelines) = {}

\* what the calls change: remove(k) takes out the entry of k and no other,
\* and a getOrCreate(k) after it would run the builder; clear takes out
\* every entry; get(k) changes nothing; a getOrCreate(k) on an uncached key
\* runs the builder and stores a pipeline no entry held
C19_Effects ==
    /\ \A k \in Keys :
           /\ Remove(k) =>
                  /\ DOMAIN pipelines' = DOMAIN pipelines \ {k}
                  /\ \A j \in DOMAIN pipelines' : pipelines'[j] = pipelines[j]
                  /\ GetResult(pipelines', k) = 0
                  /\ GetOrCreateResult(
                         CacheOf(pipelines', nextPipeline', builds',
                                 returned', calls'), k).builds[k] = 1
           /\ Get(k) => pipelines' = pipelines
           /\ GetOrCreate(k) /\ k \notin DOMAIN pipelines =>
                  /\ builds'[k] = 1
                  /\ k \in DOMAIN pipelines'
                  /\ \A j \in DOMAIN pipelines : pipelines[j] # pipelines'[k]
    /\ Clear => DOMAIN pipelines' = {}

\* C19: remove(k) returns true exactly when k was cached and removes that
\* entry only, after which get(k) is null and the next getOrCreate(k) runs
\* the builder again; clear() removes every entry; get(k) never creates or
\* changes an entry.
C19_RemoveClearGet == []C19_Answers /\ [][C19_Effects]_vars

\* three pipelines were built and the cache holds the first and the third:
\* the second was taken out alone by remove, and a getOrCreate built again
C19_Witness ==
    /\ nextPipeline = 3
    /\ {pipelines[k] : k \in DOMAIN pipelines} = {1, 3}

\* ---- C20 --------------------------------------------------------------
\* every step of the frame that belongs to camera cam
StepsOf(cam) ==
    LET Test(e) == e.cam = cam IN SelectSeq(frame.log, Test)

\* the frame iterated at least one camera and skipped every one
AllSkipped ==
    /\ frame.ran
    /\ frame.order # << >>
    /\ \A k \in 1..Len(frame.order) : ~Resolved(frame.order[k])

\* in every frame the only step taken for a camera whose canvas id has no
\* context is one warning naming the id: no image acquired, no pipeline
\* looked up, no buffer created or written, no pass begun, no aspect
\* update; and such a camera's aspect is still unset
C20_SkippedSteps ==
    frame.ran =>
        \A k \in 1..Len(frame.order) :
            LET ci == frame.order[k] IN
            ~Resolved(ci) =>
                /\ StepsOf(ci) =
                       <<Ev("warn", ci, 0, 0, cameras[ci].target.canvasId)>>
                /\ cameras[ci].aspect = <<0, 0>>

\* a frame that skipped every camera left the pipeline cache, the uniform
\* buffer and the cameras as they were
C20_SkippedFrame ==
    (\E dt, dt2 \in 0..MaxStep : RenderLoop(dt, dt2)) /\ AllSkipped' =>
        UNCHANGED <<cacheVars, uniformBuffer, cameras>>

\* C20: a camera whose canvas id is not registered has no effect on the
\* engine or on the GPU: nothing is acquired, looked up, allocated, written
\* or encoded for it and its aspect is not touched; it gets one warning
\* per frame.
C20_SkipHasNoEffect == []C20_SkippedSteps /\ [][C20_SkippedFrame]_vars

\* a later frame that skipped two cameras, every camera it iterated
C20_Witness ==
    /\ AllSkipped /\ ~frame.first
    /\ Len(EventsNamed(frame.log, {"warn"})) = 2

====
